---- MODULE Spec2Model ----
(***************************************************************************)
(* Model of the keto-k8 master bootstrap coordinator (package kmm) and of  *)
(* the shared-asset codec of package kubeadm.                              *)
(*                                                                         *)
(* Every node runs Config.CreateOrGetSharedAssets against one etcd store.  *)
(* A node's position in that function is pc[n]; every blocking call (a     *)
(* store operation, a provisioner step, the back-off sleep) is one step.   *)
(* Text is modelled as a sequence of one-character strings.                *)
(***************************************************************************)
EXTENDS Naturals, Sequences, FiniteSets, TLC

\* Number of master nodes racing against the store (bound of the model).
NumNodes == 2

\* Number of nodes that may crash while holding the lock (bound of the model).
MaxCrashes == 1

\* Longest total text of a shared-asset bundle the codec is run on (bound of
\* the model).
MaxTextLen == 3

Nodes == 1..NumNodes

\* The default back-off between two attempts, in seconds, and the value
\* New gives to ConfigType.MasterBackOffTime.
defaultBackOff == 20
MasterBackOffTime == defaultBackOff

\* The well-known store keys.
assetKey == "kmm-asset-key"
assetLockKey == "kmm-asset-lock"
Keys == {assetKey, assetLockKey}

\* The nil error and the store's distinguished errors.
Nil == "nil"
ErrKeyMissing == "ErrKeyMissing"
ErrKeyAlreadyExists == "ErrKeyAlreadyExists"
ErrStore == "ErrStore"

-----------------------------------------------------------------------------
(* The shared-asset bundle and its JSON form.                              *)

FieldNames == <<"FrontProxyCa", "FrontProxyCaKey", "SaPub", "SaKey">>

\* SharedAssets{} : the zero value of the struct.
ZeroAssets ==
    [FrontProxyCa |-> <<>>, FrontProxyCaKey |-> <<>>, SaPub |-> <<>>, SaKey |-> <<>>]

\* The PEM text kubeadm generates on node m for the i-th shared file: a
\* header dash, the generator, the file, a quote-worthy character and a
\* trailing newline.
PemOf(m, i) == <<"-", ToString(m), ToString(i), "\\", "\n">>

\* The four shared files generated by CreatePKI on node m.
GeneratedAssets(m) ==
    [FrontProxyCa |-> PemOf(m, 1), FrontProxyCaKey |-> PemOf(m, 2),
     SaPub |-> PemOf(m, 3), SaKey |-> PemOf(m, 4)]

RECURSIVE EscapeJSON(_)
\* encoding/json string escaping: quote and backslash get a backslash, a
\* newline becomes backslash-n.
EscapeJSON(s) ==
    IF s = <<>> THEN <<>>
    ELSE LET c == Head(s)
             e == IF c = "\"" THEN <<"\\", "\"">>
                  ELSE IF c = "\\" THEN <<"\\", "\\">>
                  ELSE IF c = "\n" THEN <<"\\", "n">>
                  ELSE <<c>>
         IN  e \o EscapeJSON(Tail(s))

QuoteJSON(s) == <<"\"">> \o EscapeJSON(s) \o <<"\"">>

\* Marshal writing each field between quotes as it is, nothing escaped.
MarshalUnescaped(b) ==
    <<"{">> \o QuoteJSON(<<"FrontProxyCa">>) \o <<":", "\"">> \o b.FrontProxyCa \o <<"\"">>
    \o <<",">> \o QuoteJSON(<<"FrontProxyCaKey">>) \o <<":", "\"">> \o b.FrontProxyCaKey \o <<"\"">>
    \o <<",">> \o QuoteJSON(<<"SaPub">>) \o <<":", "\"">> \o b.SaPub \o <<"\"">>
    \o <<",">> \o QuoteJSON(<<"SaKey">>) \o <<":", "\"">> \o b.SaKey \o <<"\"">>
    \o <<"}">>

\* json.Marshal(sharedAssets): an object with the struct's fields in
\* declaration order.
Marshal(b) ==
    <<"{">> \o QuoteJSON(<<"FrontProxyCa">>) \o <<":">> \o QuoteJSON(b.FrontProxyCa)
    \o <<",">> \o QuoteJSON(<<"FrontProxyCaKey">>) \o <<":">> \o QuoteJSON(b.FrontProxyCaKey)
    \o <<",">> \o QuoteJSON(<<"SaPub">>) \o <<":">> \o QuoteJSON(b.SaPub)
    \o <<",">> \o QuoteJSON(<<"SaKey">>) \o <<":">> \o QuoteJSON(b.SaKey)
    \o <<"}">>

RECURSIVE ScanString(_, _, _)
\* Reads the body of a JSON string of s from position i (just after the
\* opening quote), acc being what was read so far.  Answers the text and
\* the position after the closing quote, or ok = FALSE.
ScanString(s, i, acc) ==
    IF i > Len(s) THEN [ok |-> FALSE, val |-> <<>>, next |-> i]
    ELSE IF s[i] = "\"" THEN [ok |-> TRUE, val |-> acc, next |-> i + 1]
    ELSE IF s[i] = "\\" THEN
        IF i + 1 > Len(s) THEN [ok |-> FALSE, val |-> <<>>, next |-> i]
        ELSE IF s[i + 1] = "n" THEN ScanString(s, i + 2, Append(acc, "\n"))
        ELSE IF s[i + 1] \in {"\"", "\\"} THEN ScanString(s, i + 2, Append(acc, s[i + 1]))
        ELSE [ok |-> FALSE, val |-> <<>>, next |-> i]
    ELSE ScanString(s, i + 1, Append(acc, s[i]))

ReadString(s, i) ==
    IF i <= Len(s) /\ s[i] = "\"" THEN ScanString(s, i + 1, <<>>)
    ELSE [ok |-> FALSE, val |-> <<>>, next |-> i]

\* Assigns a decoded member to the struct field of that name; members the
\* struct does not have are dropped.
SetField(b, name, val) ==
    IF name = <<"FrontProxyCa">> THEN [b EXCEPT !.FrontProxyCa = val]
    ELSE IF name = <<"FrontProxyCaKey">> THEN [b EXCEPT !.FrontProxyCaKey = val]
    ELSE IF name = <<"SaPub">> THEN [b EXCEPT !.SaPub = val]
    ELSE IF name = <<"SaKey">> THEN [b EXCEPT !.SaKey = val]
    ELSE b

RECURSIVE ReadMembers(_, _, _)
\* Reads "name":"value" members from position i up to the closing brace,
\* which must end the text.
ReadMembers(s, i, b) ==
    LET k == ReadString(s, i)
        v == ReadString(s, k.next + 1)
    IN  IF ~k.ok \/ k.next > Len(s) \/ s[k.next] # ":" THEN [ok |-> FALSE, val |-> ZeroAssets]
        ELSE IF ~v.ok \/ v.next > Len(s) THEN [ok |-> FALSE, val |-> ZeroAssets]
        ELSE IF s[v.next] = "," THEN ReadMembers(s, v.next + 1, SetField(b, k.val, v.val))
        ELSE IF s[v.next] = "}" /\ v.next = Len(s)
             THEN [ok |-> TRUE, val |-> SetField(b, k.val, v.val)]
        ELSE [ok |-> FALSE, val |-> ZeroAssets]

\* json.Unmarshal([]byte(assets), &sharedAssets) on a zero struct: the
\* decoded struct, or a syntax error that leaves the struct zero.
Unmarshal(s) ==
    IF Len(s) < 2 \/ s[1] # "{" THEN [ok |-> FALSE, val |-> ZeroAssets]
    ELSE IF Len(s) = 2 THEN [ok |-> s[2] = "}", val |-> ZeroAssets]
    ELSE ReadMembers(s, 2, ZeroAssets)

-----------------------------------------------------------------------------
(* The etcd client the coordinator consumes (package etcd).                *)

\* A key of the store: absent, or a record with its value and the node
\* whose call created it (owner is 0 for an absent key).
NoRecord == [present |-> FALSE, value |-> <<>>, owner |-> 0]

\* Etcd.Get(key): the value, or the distinguished missing-key error.
Get(s, key) ==
    IF s[key].present THEN [err |-> Nil, value |-> s[key].value]
    ELSE [err |-> ErrKeyMissing, value |-> <<>>]

\* Etcd.GetOrCreateLock(key, ttl) by node n: creates the lock record if the
\* key is absent and answers whether this call created it.
GetOrCreateLock(s, key, n) ==
    IF s[key].present THEN [store |-> s, mylock |-> FALSE]
    ELSE [store |-> [s EXCEPT ![key] = [present |-> TRUE, value |-> <<>>, owner |-> n]],
          mylock |-> TRUE]

\* Etcd.PutTx(key, value) by node n: writes only if the key is absent.
PutTx(s, key, value, n) ==
    IF s[key].present THEN [store |-> s, err |-> ErrKeyAlreadyExists]
    ELSE [store |-> [s EXCEPT ![key] = [present |-> TRUE, value |-> value, owner |-> n]],
          err |-> Nil]

\* Etcd.Delete(key): removes the key, whoever created it.
Delete(s, key) == [s EXCEPT ![key] = NoRecord]

-----------------------------------------------------------------------------
(* State.                                                                  *)

VARIABLES
    store,            \* the etcd keys: [Keys -> record]
    ExitOnCompletion, \* ConfigType.ExitOnCompletion of the deployment
    pc,               \* pc[n] = <<phase, step>>: where node n stands
    role,             \* "None", "Primary" or "Secondary": the branch node n took
    assets,           \* the local variable assets of node n
    err,              \* the error node n holds, and returns once pc[n] is Returned
    disk,             \* the four shared files in node n's PkiDir
    lastOp,           \* the last store operation node n issued and its result
    putLog,           \* the results of node n's PutTx calls, in order
    cleanupLog,       \* the arguments of node n's CleanUp calls, in order
    stepLog,          \* the provisioner calls node n made and their errors, in order
    waited            \* the seconds node n slept since its last Get or lock attempt

vars == <<store, ExitOnCompletion, pc, role, assets, err, disk, lastOp, putLog,
          cleanupLog, stepLog, waited>>

\* The order of the steps before the loop, of BootstrapOnce after the
\* assets are loaded, and of BootstrapSecondaryMaster after SaveAssets.
StartupSteps == <<"UpdateCloudCfg", "CopyKubeCa", "WriteManifests">>
PrimarySteps == <<"CreateKubeConfig", "CreateAndStartKubelet", "Addons",
                  "InstallNetwork", "TokensDeploy">>
SecondarySteps == <<"CreatePKI", "CreateKubeConfig", "CreateAndStartKubelet",
                    "UpdateMasterRoleLabelsAndTaints">>

\* The files SaveAssets writes, in the order it writes them.
WriteOrder == <<"SaPub", "SaKey", "FrontProxyCa", "FrontProxyCaKey">>

\* The error LoadAndSerializeAssets answers when a key or the front proxy
\* certificate cannot be loaded, or the certificate is not a CA.
LoadErrors == {"ErrLoadAssets"}

\* A PkiDir holding none of the shared files.
NoFiles == [f \in {} |-> <<>>]

NoOp == [op |-> "none", key |-> "none", res |-> Nil]

Init ==
    /\ store = [k \in Keys |-> NoRecord]
    /\ ExitOnCompletion \in BOOLEAN
    /\ pc = [n \in Nodes |-> <<"Startup", "UpdateCloudCfg">>]
    /\ role = [n \in Nodes |-> "None"]
    /\ assets = [n \in Nodes |-> <<>>]
    /\ err = [n \in Nodes |-> Nil]
    /\ disk = [n \in Nodes |-> NoFiles]
    /\ lastOp = [n \in Nodes |-> NoOp]
    /\ putLog = [n \in Nodes |-> <<>>]
    /\ cleanupLog = [n \in Nodes |-> <<>>]
    /\ stepLog = [n \in Nodes |-> <<>>]
    /\ waited = [n \in Nodes |-> 0]

\* return e : node n leaves CreateOrGetSharedAssets with error e.
Return(n, e) ==
    /\ pc' = [pc EXCEPT ![n] = <<"Done", "Returned">>]
    /\ err' = [err EXCEPT ![n] = e]

\* Position of step x in the sequence q.
IndexOf(q, x) == CHOOSE i \in 1..Len(q) : q[i] = x

\* Node n called the provisioner step of that phase, which answered e.
Logged(n, phase, step, e) ==
    stepLog' = [stepLog EXCEPT ![n] = Append(@, [phase |-> phase, step |-> step, err |-> e])]

-----------------------------------------------------------------------------
(* Config.CreateOrGetSharedAssets, one blocking call per step.             *)

\* UpdateCloudCfg, CopyKubeCa, WriteManifests: each returns its error.
Startup(n) ==
    /\ pc[n][1] = "Startup"
    /\ \E ok \in BOOLEAN :
         LET i == IndexOf(StartupSteps, pc[n][2])
         IN  /\ Logged(n, "Startup", pc[n][2], IF ok THEN Nil ELSE pc[n][2])
             /\ IF ok
                THEN /\ pc' = [pc EXCEPT ![n] = IF i < Len(StartupSteps)
                                                THEN <<"Startup", StartupSteps[i + 1]>>
                                                ELSE <<"Loop", "Get">>]
                     /\ UNCHANGED err
                ELSE Return(n, pc[n][2])
    /\ UNCHANGED <<store, ExitOnCompletion, role, assets, disk, lastOp, putLog, cleanupLog, waited>>

\* BranchOnGet with the missing key taken for a present record.
BranchOnGetNoMissingTest(e) ==
    IF e # Nil /\ e # ErrKeyMissing THEN <<"Done", "Returned">>
    ELSE <<"Secondary", "SaveAssets">>

\* BranchOnGet with a store error retried after the back-off.
BranchOnGetRetryError(e) ==
    IF e = ErrKeyMissing THEN <<"Loop", "GetOrCreateLock">>
    ELSE IF e # Nil THEN <<"Loop", "Sleep">>
    ELSE <<"Secondary", "SaveAssets">>

\* Where the loop goes on the error e of Get: a missing key leads to the
\* lock attempt, any other error returns, no error starts the secondary.
BranchOnGet(e) ==
    IF e = ErrKeyMissing THEN <<"Loop", "GetOrCreateLock">>
    ELSE IF e # Nil THEN <<"Done", "Returned">>
    ELSE <<"Secondary", "SaveAssets">>

\* assets, err := k.Etcd.Get(assetKey) and the branch on its result.
LoopGet(n) ==
    /\ pc[n] = <<"Loop", "Get">>
    /\ \E fail \in BOOLEAN :
         LET r == IF fail THEN [err |-> ErrStore, value |-> <<>>] ELSE Get(store, assetKey)
             next == BranchOnGet(r.err)
         IN  /\ lastOp' = [lastOp EXCEPT ![n] = [op |-> "Get", key |-> assetKey, res |-> r.err]]
             /\ assets' = [assets EXCEPT ![n] = r.value]
             /\ pc' = [pc EXCEPT ![n] = next]
             /\ err' = [err EXCEPT ![n] = IF next = <<"Done", "Returned">> THEN r.err ELSE @]
             /\ role' = [role EXCEPT ![n] = IF next[1] = "Secondary" THEN "Secondary" ELSE @]
    /\ waited' = [waited EXCEPT ![n] = 0]
    /\ UNCHANGED <<store, ExitOnCompletion, disk, putLog, cleanupLog, stepLog>>

\* BranchOnLock with the lock asked for again at once when it is held.
BranchOnLockNoBackOff(e, mylock) ==
    IF e # Nil THEN <<"Done", "Returned">>
    ELSE IF mylock THEN <<"Primary", "CreatePKI">>
    ELSE <<"Loop", "Get">>

\* BranchOnLock with the function left, no error, when the lock is held.
BranchOnLockGiveUp(e, mylock) ==
    IF e # Nil THEN <<"Done", "Returned">>
    ELSE IF mylock THEN <<"Primary", "CreatePKI">>
    ELSE <<"Done", "Returned">>

\* Where the loop goes after GetOrCreateLock: an error returns, the lock
\* starts BootstrapOnce, a lock held by another node leads to the sleep.
BranchOnLock(e, mylock) ==
    IF e # Nil THEN <<"Done", "Returned">>
    ELSE IF mylock THEN <<"Primary", "CreatePKI">>
    ELSE <<"Loop", "Sleep">>

\* mylock, err := k.Etcd.GetOrCreateLock(assetLockKey, defaultLockTTL)
LoopLock(n) ==
    /\ pc[n] = <<"Loop", "GetOrCreateLock">>
    /\ \E fail \in BOOLEAN :
         LET r == GetOrCreateLock(store, assetLockKey, n)
             e == IF fail THEN ErrStore ELSE Nil
             mylock == ~fail /\ r.mylock
             next == BranchOnLock(e, mylock)
         IN  /\ store' = IF fail THEN store ELSE r.store
             /\ lastOp' = [lastOp EXCEPT ![n] =
                             [op |-> "GetOrCreateLock", key |-> assetLockKey,
                              res |-> IF fail THEN e ELSE IF mylock THEN "true" ELSE "false"]]
             /\ pc' = [pc EXCEPT ![n] = next]
             /\ err' = [err EXCEPT ![n] = IF next = <<"Done", "Returned">> THEN e ELSE @]
             /\ role' = [role EXCEPT ![n] = IF next[1] = "Primary" THEN "Primary" ELSE @]
    /\ waited' = [waited EXCEPT ![n] = 0]
    /\ UNCHANGED <<ExitOnCompletion, assets, disk, putLog, cleanupLog, stepLog>>

\* time.Sleep(k.MasterBackOffTime), then the loop starts over.
Sleep(n) ==
    /\ pc[n] = <<"Loop", "Sleep">>
    /\ pc' = [pc EXCEPT ![n] = <<"Loop", "Get">>]
    /\ waited' = [waited EXCEPT ![n] = @ + MasterBackOffTime]
    /\ UNCHANGED <<store, ExitOnCompletion, role, assets, err, disk, lastOp, putLog,
                   cleanupLog, stepLog>>

\* PutFailCleanUpArgs asking CleanUp to delete the assets too.
PutFailCleanUpDeleteAssets == <<TRUE, TRUE>>

\* PutFailCleanUpArgs asking CleanUp to leave the lock where it is.
PutFailCleanUpKeepLock == <<FALSE, FALSE>>

\* The arguments of CleanUp when BootstrapOnce failed, and when PutTx failed.
BootstrapFailCleanUpArgs == <<TRUE, FALSE>>
PutFailCleanUpArgs == <<TRUE, FALSE>>

\* BootstrapOnce returns ("", e): the caller calls CleanUp and will return e.
FailPrimary(n, e) ==
    /\ err' = [err EXCEPT ![n] = e]
    /\ assets' = [assets EXCEPT ![n] = <<>>]
    /\ cleanupLog' = [cleanupLog EXCEPT ![n] = Append(@, BootstrapFailCleanUpArgs)]
    /\ pc' = [pc EXCEPT ![n] = <<"Loop", "CleanUp">>]

\* BootstrapOnce: k.Kubeadm.CreatePKI() generates the PKI files of the node.
PrimaryCreatePKI(n) ==
    /\ pc[n] = <<"Primary", "CreatePKI">>
    /\ \E ok \in BOOLEAN :
         /\ Logged(n, "Primary", "CreatePKI", IF ok THEN Nil ELSE "CreatePKI")
         /\ IF ok
            THEN /\ disk' = [disk EXCEPT ![n] = GeneratedAssets(n)]
                 /\ pc' = [pc EXCEPT ![n] = <<"Primary", "LoadAndSerializeAssets">>]
                 /\ err' = [err EXCEPT ![n] = Nil]
                 /\ UNCHANGED <<assets, cleanupLog>>
            ELSE FailPrimary(n, "CreatePKI") /\ UNCHANGED disk
    /\ UNCHANGED <<store, ExitOnCompletion, role, lastOp, putLog, waited>>

\* Config.LoadAndSerializeAssets with load result e: the JSON text of the
\* files on disk d, or "" and the error.
LoadAndSerializeAssets(d, e) ==
    IF \E i \in 1..Len(FieldNames) : FieldNames[i] \notin DOMAIN d
    THEN [assets |-> <<>>, err |-> "ErrLoadAssets"]
    ELSE IF e # Nil THEN [assets |-> <<>>, err |-> e]
    ELSE [assets |-> Marshal(d), err |-> Nil]

\* BootstrapOnce: assets, err = k.Kubeadm.LoadAndSerializeAssets(); the next
\* statement assigns err again without reading it.
PrimaryLoadAssets(n) ==
    /\ pc[n] = <<"Primary", "LoadAndSerializeAssets">>
    /\ \E e \in {Nil} \cup LoadErrors :
         LET r == LoadAndSerializeAssets(disk[n], e)
         IN  /\ assets' = [assets EXCEPT ![n] = r.assets]
             /\ err' = [err EXCEPT ![n] = r.err]
             /\ Logged(n, "Primary", "LoadAndSerializeAssets", r.err)
    /\ pc' = [pc EXCEPT ![n] = <<"Primary", PrimarySteps[1]>>]
    /\ UNCHANGED <<store, ExitOnCompletion, role, disk, lastOp, putLog, cleanupLog, waited>>

\* BootstrapOnce: CreateKubeConfig, CreateAndStartKubelet, Addons,
\* InstallNetwork, TokensDeploy, each assigning err and returning on error.
PrimaryStep(n) ==
    /\ pc[n][1] = "Primary"
    /\ \E i \in 1..Len(PrimarySteps) :
         /\ pc[n][2] = PrimarySteps[i]
         /\ \E ok \in BOOLEAN :
              /\ Logged(n, "Primary", PrimarySteps[i], IF ok THEN Nil ELSE PrimarySteps[i])
              /\ IF ok
                 THEN /\ err' = [err EXCEPT ![n] = Nil]
                      /\ pc' = [pc EXCEPT ![n] = IF i < Len(PrimarySteps)
                                                  THEN <<"Primary", PrimarySteps[i + 1]>>
                                                  ELSE <<"Loop", "PutTx">>]
                      /\ UNCHANGED <<assets, cleanupLog>>
                 ELSE FailPrimary(n, PrimarySteps[i])
    /\ UNCHANGED <<store, ExitOnCompletion, role, disk, lastOp, putLog, waited>>

\* PublishAssets with a plain Put, which writes whatever the key holds.
PublishAssetsPut(s, n, value) ==
    [store |-> [s EXCEPT ![assetKey] = [present |-> TRUE, value |-> value, owner |-> n]],
     err |-> Nil]

\* k.Etcd.PutTx(assetKey, assets) by node n on store s.
PublishAssets(s, n, value) == PutTx(s, assetKey, value, n)

\* err = k.Etcd.PutTx(assetKey, assets): on error CleanUp and return it,
\* otherwise break out of the loop.
LoopPutTx(n) ==
    /\ pc[n] = <<"Loop", "PutTx">>
    /\ \E fail \in BOOLEAN :
         LET r == IF fail THEN [store |-> store, err |-> ErrStore]
                  ELSE PublishAssets(store, n, assets[n])
         IN  /\ store' = r.store
             /\ putLog' = [putLog EXCEPT ![n] = Append(@, r.err)]
             /\ lastOp' = [lastOp EXCEPT ![n] = [op |-> "PutTx", key |-> assetKey, res |-> r.err]]
             /\ IF r.err # Nil
                THEN /\ err' = [err EXCEPT ![n] = r.err]
                     /\ cleanupLog' = [cleanupLog EXCEPT ![n] = Append(@, PutFailCleanUpArgs)]
                     /\ pc' = [pc EXCEPT ![n] = <<"Loop", "CleanUp">>]
                ELSE /\ pc' = [pc EXCEPT ![n] = <<"Gate", "Gate">>]
                     /\ UNCHANGED <<err, cleanupLog>>
    /\ UNCHANGED <<ExitOnCompletion, role, assets, disk, stepLog, waited>>

\* Kmm.CleanUp(releaseLock, deleteAssets) on store s, failAt being the
\* number of its Delete that fails (0: none): the store it leaves, its
\* error and the last Delete it issued.
CleanUp(s, releaseLock, deleteAssets, failAt) ==
    LET lockFails == releaseLock /\ failAt = 1
        s1 == IF releaseLock /\ ~lockFails THEN Delete(s, assetLockKey) ELSE s
        assetsTried == deleteAssets /\ ~lockFails
        assetsFail == assetsTried /\ failAt = 2
        s2 == IF assetsTried /\ ~assetsFail THEN Delete(s1, assetKey) ELSE s1
    IN  [store |-> s2,
         err |-> IF lockFails \/ assetsFail THEN ErrStore ELSE Nil,
         last |-> IF assetsTried
                  THEN [op |-> "Delete", key |-> assetKey,
                        res |-> IF assetsFail THEN ErrStore ELSE Nil]
                  ELSE IF releaseLock
                  THEN [op |-> "Delete", key |-> assetLockKey,
                        res |-> IF lockFails THEN ErrStore ELSE Nil]
                  ELSE NoOp]

\* k.Kmm.CleanUp(true, false); return err : the error of CleanUp is dropped.
LoopCleanUp(n) ==
    /\ pc[n] = <<"Loop", "CleanUp">>
    /\ \E failAt \in {0, 1, 2} :
         LET args == cleanupLog[n][Len(cleanupLog[n])]
             r == CleanUp(store, args[1], args[2], failAt)
         IN  /\ store' = r.store
             /\ lastOp' = [lastOp EXCEPT ![n] = IF r.last = NoOp THEN @ ELSE r.last]
    /\ Return(n, err[n])
    /\ UNCHANGED <<ExitOnCompletion, role, assets, disk, putLog, cleanupLog, stepLog, waited>>

-----------------------------------------------------------------------------
(* Config.BootstrapSecondaryMaster.                                        *)

\* The files of disk d after SaveAssets wrote the first k files of bundle b.
WriteFiles(d, b, k) ==
    LET written == {WriteOrder[i] : i \in 1..k}
    IN  [f \in DOMAIN d \cup written |-> IF f \in written THEN b[f] ELSE d[f]]

\* Config.SaveAssets(assets) on disk d, the first k WriteFile calls
\* succeeding: the result of json.Unmarshal is not read, and the fields of
\* the struct are written whatever it answered.
SaveAssets(d, text, k) ==
    LET sharedAssets == Unmarshal(text).val
    IN  [disk |-> WriteFiles(d, sharedAssets, k),
         err |-> IF k < Len(WriteOrder) THEN "SaveAssets" ELSE Nil]

\* BranchOnSecondaryError with the loop run again instead of returning.
BranchOnSecondaryErrorRetry == <<"Loop", "Get">>

\* Where BootstrapSecondaryMaster's error leads: it is returned.
BranchOnSecondaryError == <<"Done", "Returned">>

\* if err := k.Kubeadm.SaveAssets(assets); err != nil { return err }
SecondarySaveAssets(n) ==
    /\ pc[n] = <<"Secondary", "SaveAssets">>
    /\ \E k \in 0..Len(WriteOrder) :
         LET r == SaveAssets(disk[n], assets[n], k)
         IN  /\ disk' = [disk EXCEPT ![n] = r.disk]
             /\ err' = [err EXCEPT ![n] = r.err]
             /\ Logged(n, "Secondary", "SaveAssets", r.err)
             /\ pc' = [pc EXCEPT ![n] = IF r.err # Nil THEN BranchOnSecondaryError
                                         ELSE <<"Secondary", SecondarySteps[1]>>]
    /\ UNCHANGED <<store, ExitOnCompletion, role, assets, lastOp, putLog, cleanupLog, waited>>

\* CreatePKI, CreateKubeConfig, CreateAndStartKubelet and
\* UpdateMasterRoleLabelsAndTaints, each returning its error.
SecondaryStep(n) ==
    /\ pc[n][1] = "Secondary"
    /\ \E i \in 1..Len(SecondarySteps) :
         /\ pc[n][2] = SecondarySteps[i]
         /\ \E ok \in BOOLEAN :
              /\ Logged(n, "Secondary", SecondarySteps[i], IF ok THEN Nil ELSE SecondarySteps[i])
              /\ IF ok
                 THEN /\ pc' = [pc EXCEPT ![n] = IF i < Len(SecondarySteps)
                                                 THEN <<"Secondary", SecondarySteps[i + 1]>>
                                                 ELSE <<"Gate", "Gate">>]
                      /\ UNCHANGED err
                 ELSE /\ pc' = [pc EXCEPT ![n] = BranchOnSecondaryError]
                      /\ err' = [err EXCEPT ![n] = SecondarySteps[i]]
    /\ UNCHANGED <<store, ExitOnCompletion, role, assets, disk, lastOp, putLog, cleanupLog, waited>>

\* CompletionGate with the spin replaced by another round of the loop.
CompletionGateRetry(n) ==
    /\ pc[n] = <<"Gate", "Gate">>
    /\ IF ExitOnCompletion
       THEN Return(n, Nil)
       ELSE /\ pc' = [pc EXCEPT ![n] = <<"Loop", "Get">>]
            /\ UNCHANGED err
    /\ UNCHANGED <<store, ExitOnCompletion, role, assets, disk, lastOp, putLog, cleanupLog, stepLog, waited>>

\* "Master bootstrapped": return nil, or spin for ever.
CompletionGate(n) ==
    /\ pc[n] = <<"Gate", "Gate">>
    /\ IF ExitOnCompletion
       THEN Return(n, Nil)
       ELSE /\ pc' = [pc EXCEPT ![n] = <<"Done", "Parked">>]
            /\ UNCHANGED err
    /\ UNCHANGED <<store, ExitOnCompletion, role, assets, disk, lastOp, putLog, cleanupLog, stepLog, waited>>

\* The lock record reaches its TTL (defaultLockTTL) and the store drops it.
LockExpire ==
    /\ store[assetLockKey].present
    /\ store' = [store EXCEPT ![assetLockKey] = NoRecord]
    /\ UNCHANGED <<ExitOnCompletion, pc, role, assets, err, disk, lastOp, putLog, cleanupLog, stepLog, waited>>

Next ==
    \/ \E n \in Nodes : Startup(n)
    \/ \E n \in Nodes : LoopGet(n)
    \/ \E n \in Nodes : LoopLock(n)
    \/ \E n \in Nodes : Sleep(n)
    \/ \E n \in Nodes : PrimaryCreatePKI(n)
    \/ \E n \in Nodes : PrimaryLoadAssets(n)
    \/ \E n \in Nodes : PrimaryStep(n)
    \/ \E n \in Nodes : LoopPutTx(n)
    \/ \E n \in Nodes : LoopCleanUp(n)
    \/ \E n \in Nodes : SecondarySaveAssets(n)
    \/ \E n \in Nodes : SecondaryStep(n)
    \/ \E n \in Nodes : CompletionGate(n)
    \/ LockExpire

Spec == Init /\ [][Next]_vars

-----------------------------------------------------------------------------
(* Crashes of the lock holder, and fair scheduling.                        *)

\* The process of node n dies after GetOrCreateLock gave it the lock and
\* before it published or cleaned up: it takes no further step and its
\* lock record stays in the store.
Crash(n) ==
    /\ pc[n][1] = "Primary" \/ pc[n] = <<"Loop", "PutTx">>
    /\ Cardinality({m \in Nodes : pc[m] = <<"Done", "Crashed">>}) < MaxCrashes
    /\ pc' = [pc EXCEPT ![n] = <<"Done", "Crashed">>]
    /\ UNCHANGED <<store, ExitOnCompletion, role, assets, err, disk, lastOp, putLog,
                   cleanupLog, stepLog, waited>>

\* The next statement of CreateOrGetSharedAssets on node n.
NodeStep(n) ==
    \/ Startup(n)
    \/ LoopGet(n)
    \/ LoopLock(n)
    \/ Sleep(n)
    \/ PrimaryCreatePKI(n)
    \/ PrimaryLoadAssets(n)
    \/ PrimaryStep(n)
    \/ LoopPutTx(n)
    \/ LoopCleanUp(n)
    \/ SecondarySaveAssets(n)
    \/ SecondaryStep(n)
    \/ CompletionGate(n)

CrashNext ==
    \/ Next
    \/ \E n \in Nodes : Crash(n)

\* Every process that has not crashed keeps running, every blocking call
\* answers, and the store drops a lock record when its TTL is over.
Fairness ==
    /\ \A n \in Nodes : WF_vars(NodeStep(n))
    /\ WF_vars(LockExpire)

FairCrashSpec == Init /\ [][CrashNext]_vars /\ Fairness

-----------------------------------------------------------------------------
(* Executions in which nothing fails.                                      *)

\* No WriteFile, provisioner step or load answered an error, and no store
\* call answered a store failure.
NoFault ==
    \A n \in Nodes :
        /\ lastOp[n].res # ErrStore
        /\ \A i \in DOMAIN putLog[n] : putLog[n][i] # ErrStore
        /\ \A i \in DOMAIN stepLog[n] : stepLog[n][i].err = Nil

\* A step of some node, or the expiry of the lock, in which nothing fails.
NoFailNext == Next /\ NoFault'

NoFailSpec == Init /\ [][NoFailNext]_vars

-----------------------------------------------------------------------------
(* The codec on its own: LoadAndSerializeAssets on one node, SaveAssets on *)
(* the others.                                                             *)

\* The characters the bundles are drawn from: a plain letter and the three
\* characters of PEM-like text that encoding/json escapes.
TextAlphabet == {"n", "\n", "\\", "\""}

\* Node 1 holds some bundle of at most MaxTextLen characters in its PkiDir,
\* the other nodes hold none of the files.
CodecInit ==
    /\ store = [k \in Keys |-> NoRecord]
    /\ ExitOnCompletion = TRUE
    /\ pc = [n \in Nodes |-> <<"Codec", "Start">>]
    /\ role = [n \in Nodes |-> "None"]
    /\ assets = [n \in Nodes |-> <<>>]
    /\ err = [n \in Nodes |-> Nil]
    /\ \E l1, l2, l3, l4 \in 0..MaxTextLen :
         /\ l1 + l2 + l3 + l4 <= MaxTextLen
         /\ \E t1 \in [1..l1 -> TextAlphabet], t2 \in [1..l2 -> TextAlphabet],
               t3 \in [1..l3 -> TextAlphabet], t4 \in [1..l4 -> TextAlphabet] :
              disk = [n \in Nodes |->
                        IF n = 1
                        THEN [FrontProxyCa |-> t1, FrontProxyCaKey |-> t2,
                              SaPub |-> t3, SaKey |-> t4]
                        ELSE NoFiles]
    /\ lastOp = [n \in Nodes |-> NoOp]
    /\ putLog = [n \in Nodes |-> <<>>]
    /\ cleanupLog = [n \in Nodes |-> <<>>]
    /\ stepLog = [n \in Nodes |-> <<>>]
    /\ waited = [n \in Nodes |-> 0]

\* Node n serializes the files of its PkiDir.
CodecSerialize(n) ==
    /\ pc[n] = <<"Codec", "Start">>
    /\ disk[n] # NoFiles
    /\ LET r == LoadAndSerializeAssets(disk[n], Nil)
       IN  /\ assets' = [assets EXCEPT ![n] = r.assets]
           /\ err' = [err EXCEPT ![n] = r.err]
    /\ pc' = [pc EXCEPT ![n] = <<"Codec", "Serialized">>]
    /\ UNCHANGED <<store, ExitOnCompletion, role, disk, lastOp, putLog, cleanupLog,
                   stepLog, waited>>

\* Node m is handed the payload of node n and saves it, every WriteFile
\* succeeding.
CodecDeserialize(n, m) ==
    /\ pc[n] = <<"Codec", "Serialized">>
    /\ pc[m] = <<"Codec", "Start">>
    /\ disk[m] = NoFiles
    /\ LET r == SaveAssets(disk[m], assets[n], Len(WriteOrder))
       IN  /\ disk' = [disk EXCEPT ![m] = r.disk]
           /\ err' = [err EXCEPT ![m] = r.err]
    /\ assets' = [assets EXCEPT ![m] = assets[n]]
    /\ pc' = [pc EXCEPT ![m] = <<"Codec", "Saved">>]
    /\ UNCHANGED <<store, ExitOnCompletion, role, lastOp, putLog, cleanupLog, stepLog,
                   waited>>

CodecNext ==
    \/ \E n \in Nodes : CodecSerialize(n)
    \/ \E n, m \in Nodes : CodecDeserialize(n, m)

CodecSpec == CodecInit /\ [][CodecNext]_vars

-----------------------------------------------------------------------------
(* SetupCompute, run on every node as a compute node.                      *)

ComputeInit ==
    /\ store = [k \in Keys |-> NoRecord]
    /\ ExitOnCompletion \in BOOLEAN
    /\ pc = [n \in Nodes |-> <<"Compute", "UpdateCloudCfg">>]
    /\ role = [n \in Nodes |-> "None"]
    /\ assets = [n \in Nodes |-> <<>>]
    /\ err = [n \in Nodes |-> Nil]
    /\ disk = [n \in Nodes |-> NoFiles]
    /\ lastOp = [n \in Nodes |-> NoOp]
    /\ putLog = [n \in Nodes |-> <<>>]
    /\ cleanupLog = [n \in Nodes |-> <<>>]
    /\ stepLog = [n \in Nodes |-> <<>>]
    /\ waited = [n \in Nodes |-> 0]

\* if err = k.Kmm.UpdateCloudCfg(); err != nil { return err }
ComputeUpdateCloudCfg(n) ==
    /\ pc[n] = <<"Compute", "UpdateCloudCfg">>
    /\ \E ok \in BOOLEAN :
         /\ Logged(n, "Compute", "UpdateCloudCfg", IF ok THEN Nil ELSE "UpdateCloudCfg")
         /\ IF ok
            THEN /\ pc' = [pc EXCEPT ![n] = <<"Compute", "WriteKetoTokenEnv">>]
                 /\ UNCHANGED err
            ELSE Return(n, "UpdateCloudCfg")
    /\ UNCHANGED <<store, ExitOnCompletion, role, assets, disk, lastOp, putLog, cleanupLog, waited>>

\* if err = tokens.WriteKetoTokenEnv(...); err != nil { return fmt.Errorf(...) }
ComputeWriteKetoTokenEnv(n) ==
    /\ pc[n] = <<"Compute", "WriteKetoTokenEnv">>
    /\ \E ok \in BOOLEAN :
         /\ Logged(n, "Compute", "WriteKetoTokenEnv", IF ok THEN Nil ELSE "WriteKetoTokenEnv")
         /\ IF ok
            THEN /\ pc' = [pc EXCEPT ![n] = <<"Compute", "CreateAndStartKubelet">>]
                 /\ UNCHANGED err
            ELSE Return(n, "WriteKetoTokenEnv")
    /\ UNCHANGED <<store, ExitOnCompletion, role, assets, disk, lastOp, putLog, cleanupLog, waited>>

\* k.Kmm.CreateAndStartKubelet(false) : the error it answers is not read,
\* and "Compute bootstrapped" is logged whatever it answered.
ComputeCreateAndStartKubelet(n) ==
    /\ pc[n] = <<"Compute", "CreateAndStartKubelet">>
    /\ \E ok \in BOOLEAN :
         Logged(n, "Compute", "CreateAndStartKubelet", IF ok THEN Nil ELSE "CreateAndStartKubelet")
    /\ pc' = [pc EXCEPT ![n] = <<"Compute", "Gate">>]
    /\ UNCHANGED <<store, ExitOnCompletion, role, assets, err, disk, lastOp, putLog,
                   cleanupLog, waited>>

\* "Compute bootstrapped": return nil, or spin for ever.
ComputeGate(n) ==
    /\ pc[n] = <<"Compute", "Gate">>
    /\ IF ExitOnCompletion
       THEN Return(n, Nil)
       ELSE /\ pc' = [pc EXCEPT ![n] = <<"Done", "Parked">>]
            /\ UNCHANGED err
    /\ UNCHANGED <<store, ExitOnCompletion, role, assets, disk, lastOp, putLog, cleanupLog,
                   stepLog, waited>>

ComputeNext ==
    \/ \E n \in Nodes : ComputeUpdateCloudCfg(n)
    \/ \E n \in Nodes : ComputeWriteKetoTokenEnv(n)
    \/ \E n \in Nodes : ComputeCreateAndStartKubelet(n)
    \/ \E n \in Nodes : ComputeGate(n)

ComputeSpec == ComputeInit /\ [][ComputeNext]_vars

-----------------------------------------------------------------------------
(* Properties.                                                             *)

Phase(n) == pc[n][1]

Returned(n) == pc[n] = <<"Done", "Returned">>

\* Node n's i-th PutTx succeeded.
PutOkAt(n, i) == i \in DOMAIN putLog[n] /\ putLog[n][i] = Nil

PutOk(n) == \E i \in DOMAIN putLog[n] : PutOkAt(n, i)

\* The text under the asset key cannot be decoded.
Malformed(text) == ~Unmarshal(text).ok

\* C1: at most one PutTx on the asset key ever succeeds, whatever the
\* interleaving of the nodes: the successful calls of all nodes together
\* number at most one, the record under the key is the one that call wrote,
\* and every PutTx issued while the key holds a record is rejected with an
\* error and leaves the store as it was.
AtMostOneWriter ==
    /\ \A n, m \in Nodes : \A i \in DOMAIN putLog[n] : \A j \in DOMAIN putLog[m] :
         PutOkAt(n, i) /\ PutOkAt(m, j) => n = m /\ i = j
    /\ store[assetKey].present <=> \E n \in Nodes : PutOk(n)
    /\ \A n \in Nodes : PutOk(n) => store[assetKey].owner = n

\* C1 witness: two nodes both called PutTx; one succeeded and the other was
\* rejected because the key existed.
AtMostOneWriterWitness ==
    \E n, m \in Nodes :
        /\ n # m
        /\ PutOk(n)
        /\ \E j \in DOMAIN putLog[m] : putLog[m][j] = ErrKeyAlreadyExists

\* C2: at most one node is inside BootstrapOnce at any instant, also when
\* the lock's TTL elapses while its holder is still bootstrapping.
ExactlyOneGenerator ==
    Cardinality({n \in Nodes : Phase(n) = "Primary"}) <= 1

\* C3: a node is on the secondary path only after its own Get on the asset
\* key answered a value and no error, and while it is there the asset key
\* holds a record that some node's successful PutTx published, the one the
\* node fetched.
NoPrematureSecondary ==
    \A n \in Nodes :
        role[n] = "Secondary" =>
            /\ lastOp[n] = [op |-> "Get", key |-> assetKey, res |-> Nil]
            /\ store[assetKey].present
            /\ store[assetKey].owner \in Nodes
            /\ PutOk(store[assetKey].owner)
            /\ assets[n] = store[assetKey].value

\* C3 witness: a node is running BootstrapSecondaryMaster past SaveAssets.
NoPrematureSecondaryWitness ==
    \E n \in Nodes : pc[n] = <<"Secondary", "CreatePKI">>

\* C4: when a step of BootstrapOnce answers an error no later step runs,
\* the node never calls PutTx on the asset key, never reaches the
\* completion gate, and the error it returns is not nil.
PrimaryFailureAborts ==
    \A n \in Nodes : \A i \in DOMAIN stepLog[n] :
        stepLog[n][i].phase = "Primary" /\ stepLog[n][i].err # Nil =>
            /\ i = Len(stepLog[n])
            /\ putLog[n] = <<>>
            /\ pc[n] \notin {<<"Gate", "Gate">>, <<"Done", "Parked">>}
            /\ Returned(n) => err[n] # Nil

\* C5: when a node that acquired the lock returns because BootstrapOnce
\* failed, it has issued Delete on the lock key and the asset key is absent
\* at the moment it returns.
CleanupOnFailure ==
    [][\A n \in Nodes :
          pc[n] = <<"Loop", "CleanUp">> /\ putLog[n] = <<>> /\ Returned(n)' =>
              /\ lastOp'[n].op = "Delete"
              /\ lastOp'[n].key = assetLockKey
              /\ ~store'[assetKey].present]_vars

\* C6: a store error of Get or GetOrCreateLock other than the missing key
\* is returned at once, with no sleep and no further store operation; a
\* missing key never returns and always leads to the lock attempt.
TerminalVsRetryable ==
    \A n \in Nodes :
        /\ lastOp[n].op \in {"Get", "GetOrCreateLock"} /\ lastOp[n].res = ErrStore =>
              Returned(n) /\ err[n] = ErrStore
        /\ lastOp[n].op = "Get" /\ lastOp[n].res = ErrKeyMissing =>
              pc[n] = <<"Loop", "GetOrCreateLock">>

\* C6 witness: a Get failed with a store error and the node returned it,
\* while another node's Get found the key missing.
TerminalVsRetryableWitness ==
    \E n, m \in Nodes :
        /\ lastOp[n] = [op |-> "Get", key |-> assetKey, res |-> ErrStore]
        /\ Returned(n)
        /\ lastOp[m] = [op |-> "Get", key |-> assetKey, res |-> ErrKeyMissing]

\* C7: when the fetched asset record cannot be decoded, SaveAssets is the
\* last step of the secondary sequence: the node returns an error with no
\* shared file written.
MalformedIsTerminal ==
    \A n \in Nodes :
        role[n] = "Secondary" /\ Malformed(assets[n]) /\ pc[n] # <<"Secondary", "SaveAssets">> =>
            /\ Returned(n)
            /\ err[n] # Nil
            /\ DOMAIN disk[n] = {}
            /\ stepLog[n][Len(stepLog[n])].step = "SaveAssets"

\* C8: once published the asset record never changes: a node whose PutTx
\* succeeded finds, in every later state, the key holding the value it
\* wrote, and no CleanUp call ever asks for the assets to be deleted.
AssetImmutable ==
    /\ \A n \in Nodes :
         PutOk(n) => store[assetKey] = [present |-> TRUE, value |-> assets[n], owner |-> n]
    /\ \A n \in Nodes : \A i \in DOMAIN cleanupLog[n] : ~cleanupLog[n][i][2]

\* C8 witness: the record is published and a node that lost the publish
\* race has finished its CleanUp.
AssetImmutableWitness ==
    \E n, m \in Nodes :
        /\ PutOk(n)
        /\ putLog[m] = <<ErrKeyAlreadyExists>>
        /\ cleanupLog[m] # <<>>
        /\ Returned(m)

\* C9: whenever a node calls PutTx on the asset key the live lock record is
\* the one it created, it has not called PutTx before, and its BootstrapOnce
\* succeeded.
OnlyLockHolderWrites ==
    [][\A n \in Nodes :
          Len(putLog'[n]) > Len(putLog[n]) =>
              /\ store[assetLockKey].present
              /\ store[assetLockKey].owner = n
              /\ putLog[n] = <<>>
              /\ role[n] = "Primary"]_vars

\* C10: from the moment its Get answered a present record a node issues
\* no store operation: its last operation stays that Get, it has called
\* neither PutTx nor CleanUp, the lock record is not one it created, and an
\* error of a secondary step is the last step it runs and is returned.
SecondaryNeverMutates ==
    \A n \in Nodes :
        role[n] = "Secondary" =>
            /\ lastOp[n].op = "Get"
            /\ putLog[n] = <<>>
            /\ cleanupLog[n] = <<>>
            /\ store[assetLockKey].owner # n
            /\ \A i \in DOMAIN stepLog[n] :
                 stepLog[n][i].phase = "Secondary" /\ stepLog[n][i].err # Nil =>
                     /\ i = Len(stepLog[n])
                     /\ Returned(n)
                     /\ err[n] = stepLog[n][i].err

\* C10 witness: a secondary step failed on a node that had earlier lost the
\* lock to a competitor, and the node returned the error.
SecondaryNeverMutatesWitness ==
    \E n \in Nodes :
        /\ role[n] = "Secondary"
        /\ Returned(n)
        /\ err[n] = "CreateKubeConfig"

\* C11: after GetOrCreateLock answered that the lock is held by another
\* node, the node's next store operation is a Get on the asset key, issued
\* only once it has slept MasterBackOffTime; a lock attempt is only ever
\* made right after a Get that found the key missing.
BackoffFidelity ==
    \A n \in Nodes :
        /\ lastOp[n].op = "GetOrCreateLock" /\ lastOp[n].res = "false" =>
              \/ pc[n] = <<"Loop", "Sleep">> /\ waited[n] = 0
              \/ pc[n] = <<"Loop", "Get">> /\ waited[n] >= MasterBackOffTime
        /\ pc[n] = <<"Loop", "GetOrCreateLock">> =>
              lastOp[n] = [op |-> "Get", key |-> assetKey, res |-> ErrKeyMissing]

\* C11 witness: a node that was refused the lock has slept and is about to
\* query the asset key again.
BackoffFidelityWitness ==
    \E n \in Nodes :
        /\ lastOp[n] = [op |-> "GetOrCreateLock", key |-> assetLockKey, res |-> "false"]
        /\ pc[n] = <<"Loop", "Get">>
        /\ waited[n] = MasterBackOffTime

Crashed(n) == pc[n] = <<"Done", "Crashed">>

\* Node n is in the loop, not yet primary nor secondary.
Waiting(n) == pc[n][1] = "Loop" /\ role[n] = "None"

Published == store[assetKey].present

Parked(n) == pc[n] = <<"Done", "Parked">>

\* Node n's bootstrap succeeded: its PutTx published the record, or the
\* last step of BootstrapSecondaryMaster answered no error.
Bootstrapped(n) ==
    \/ PutOk(n)
    \/ /\ stepLog[n] # <<>>
       /\ stepLog[n][Len(stepLog[n])] =
             [phase |-> "Secondary", step |-> SecondarySteps[Len(SecondarySteps)], err |-> Nil]

\* C13: a node whose bootstrap succeeded, in either role, returns nil when
\* ExitOnCompletion is true; when it is false the node never returns and
\* never leaves the gate, and its last store and provisioner operations
\* stay the ones of the successful bootstrap. Only a successful bootstrap
\* reaches the gate or a nil return.
CompletionGateContract ==
    \A n \in Nodes :
        /\ Bootstrapped(n) =>
              /\ Phase(n) \in {"Gate", "Done"}
              /\ Returned(n) => ExitOnCompletion /\ err[n] = Nil
              /\ Parked(n) => ~ExitOnCompletion
              /\ role[n] = "Primary" =>
                    lastOp[n] = [op |-> "PutTx", key |-> assetKey, res |-> Nil]
              /\ role[n] = "Secondary" =>
                    /\ lastOp[n] = [op |-> "Get", key |-> assetKey, res |-> Nil]
                    /\ putLog[n] = <<>> /\ cleanupLog[n] = <<>>
        /\ Phase(n) = "Gate" \/ Parked(n) \/ (Returned(n) /\ err[n] = Nil) => Bootstrapped(n)

\* C13 witness: with ExitOnCompletion false the primary and a secondary are
\* both parked after their bootstrap.
CompletionGateContractWitness ==
    \E n, m \in Nodes :
        /\ Parked(n) /\ role[n] = "Primary"
        /\ Parked(m) /\ role[m] = "Secondary"

\* C14: serializing a bundle as LoadAndSerializeAssets does and
\* deserializing the payload as SaveAssets does reproduces every field of
\* the bundle: the payload decodes without error, and the files SaveAssets
\* wrote equal the files that were serialized.
RoundTrip ==
    \A n, m \in Nodes :
        pc[n] = <<"Codec", "Serialized">> /\ pc[m] = <<"Codec", "Saved">> =>
            /\ err[n] = Nil /\ err[m] = Nil
            /\ Unmarshal(assets[m]).ok
            /\ DOMAIN disk[m] = DOMAIN disk[n]
            /\ \A f \in DOMAIN disk[n] : disk[m][f] = disk[n][f]

\* C14 witness: a bundle whose fields hold a backslash before a letter n, a
\* quote and a newline went through the codec.
RoundTripWitness ==
    \E n, m \in Nodes :
        /\ pc[n] = <<"Codec", "Serialized">> /\ pc[m] = <<"Codec", "Saved">>
        /\ disk[n].SaKey = <<"\\", "n">>
        /\ disk[n].FrontProxyCa = <<"\"">>
        /\ disk[m].SaKey = <<"\\", "n">>

\* The provisioner calls of a node that becomes Primary, in program order.
PrimaryOrder ==
    StartupSteps \o <<"CreatePKI", "LoadAndSerializeAssets">> \o PrimarySteps

\* C15: on a node that became Primary the provisioner calls made so far are
\* a prefix of the primary order, every call before the last one made
\* answered no error, and PutTx is called only after all of them were made
\* and answered no error.
PrimaryStepOrdering ==
    \A n \in Nodes :
        role[n] = "Primary" =>
            /\ Len(stepLog[n]) <= Len(PrimaryOrder)
            /\ \A i \in DOMAIN stepLog[n] :
                 /\ stepLog[n][i].step = PrimaryOrder[i]
                 /\ i < Len(stepLog[n]) => stepLog[n][i].err = Nil
            /\ putLog[n] # <<>> =>
                 /\ Len(stepLog[n]) = Len(PrimaryOrder)
                 /\ \A i \in DOMAIN stepLog[n] : stepLog[n][i].err = Nil

\* Node n called PutTx and it answered an error.
PutFailed(n) == putLog[n] # <<>> /\ putLog[n][1] # Nil

\* C16: a PutTx on the asset key that fails leaves the store as it was; the
\* node then calls CleanUp(true, false), whose only store operation is a
\* Delete on the lock key that removes the lock record when it succeeds and
\* leaves the asset key as it is, and returns the error of PutTx; it calls
\* PutTx once only and never takes the secondary path.
LostPublishRace ==
    /\ [](\A n \in Nodes :
            PutFailed(n) =>
                /\ Len(putLog[n]) = 1
                /\ role[n] = "Primary"
                /\ pc[n] \in {<<"Loop", "CleanUp">>, <<"Done", "Returned">>}
                /\ err[n] = putLog[n][1]
                /\ cleanupLog[n] = <<<<TRUE, FALSE>>>>
                /\ \A i \in DOMAIN stepLog[n] : stepLog[n][i].phase # "Secondary")
    /\ [][\A n \in Nodes :
            /\ pc[n] = <<"Loop", "PutTx">> /\ PutFailed(n)' => store' = store
            /\ PutFailed(n) /\ pc'[n] # pc[n] =>
                  /\ Returned(n)'
                  /\ lastOp'[n].op = "Delete" /\ lastOp'[n].key = assetLockKey
                  /\ lastOp'[n].res = Nil => ~store'[assetLockKey].present
                  /\ store'[assetKey] = store[assetKey]]_vars

\* C16 witness: a primary whose PutTx was rejected because a competitor had
\* published has released the lock and returned that error, and the record
\* of the competitor is in the store.
LostPublishRaceWitness ==
    \E n \in Nodes :
        /\ Returned(n)
        /\ putLog[n] = <<ErrKeyAlreadyExists>>
        /\ err[n] = ErrKeyAlreadyExists
        /\ lastOp[n] = [op |-> "Delete", key |-> assetLockKey, res |-> Nil]
        /\ store[assetKey].present /\ store[assetKey].owner # n

\* Node n returned after BootstrapOnce failed and the Delete of its CleanUp
\* answered an error.
CleanUpFailed(n) ==
    /\ Returned(n)
    /\ putLog[n] = <<>>
    /\ cleanupLog[n] # <<>>
    /\ lastOp[n] = [op |-> "Delete", key |-> assetLockKey, res |-> ErrStore]

\* C17: when BootstrapOnce failed and the Delete of CleanUp failed too, the
\* node returns the error of the failed provisioner step, not the error of
\* the store, and the lock record the node created stays in the store until
\* its TTL expires: no operation of any node removes it.
CleanUpErrorNotMasking ==
    /\ [](\A n \in Nodes :
            CleanUpFailed(n) =>
                /\ err[n] # Nil /\ err[n] # ErrStore
                /\ err[n] = stepLog[n][Len(stepLog[n])].err)
    /\ [][\A n \in Nodes :
            /\ CleanUpFailed(n)' /\ ~CleanUpFailed(n) => store' = store
            /\ CleanUpFailed(n) /\ store[assetLockKey].owner = n
                 /\ store'[assetLockKey] # store[assetLockKey] => lastOp' = lastOp]_vars

\* C18: every successful Delete on the lock key issued by CleanUp removes a
\* lock record the calling node itself created: a step in which a node's
\* CleanUp makes a lock record disappear finds that record owned by the
\* node.
OnlyOwnLockReleased ==
    [][\A n \in Nodes :
          /\ pc[n] = <<"Loop", "CleanUp">>
          /\ pc'[n] # pc[n]
          /\ store[assetLockKey].present
          /\ ~store'[assetLockKey].present
          => store[assetLockKey].owner = n]_vars

\* The bundle node n holds in its PkiDir equals bundle b, file by file.
HoldsBundle(n, b) ==
    /\ DOMAIN disk[n] = {FieldNames[i] : i \in 1..Len(FieldNames)}
    /\ \A f \in DOMAIN disk[n] : disk[n][f] = b[f]

\* C19: every node whose bootstrap succeeded holds in its PkiDir exactly
\* the bundle stored under the asset key, so no two such nodes hold
\* different bundles, and the stored bundle is the one a primary generated
\* and loaded without error.
IdenticalSharedAssets ==
    \A n \in Nodes :
        Bootstrapped(n) =>
            /\ store[assetKey].present
            /\ Unmarshal(store[assetKey].value).ok
            /\ HoldsBundle(n, Unmarshal(store[assetKey].value).val)
            /\ \E m \in Nodes :
                 /\ PutOk(m)
                 /\ store[assetKey].value = Marshal(GeneratedAssets(m))
                 /\ \A i \in DOMAIN stepLog[m] : stepLog[m][i].err = Nil



\* C20: in an execution where no operation fails and no node crashes every
\* node completes its bootstrap successfully, one as Primary and the others
\* as Secondary, also when the lock's TTL elapses during the primary
\* bootstrap: so at most one node ever takes the primary role, no node runs
\* CleanUp, and no node returns an error.
FailureFreeBootstrap ==
    /\ Cardinality({n \in Nodes : role[n] = "Primary"}) <= 1
    /\ \A n \in Nodes :
         /\ pc[n] # <<"Loop", "CleanUp">>
         /\ Returned(n) => err[n] = Nil

\* C21: when a step of SetupCompute answered an error, the node is not at
\* the "Compute bootstrapped" gate nor parked behind it, made no later
\* step, and returns an error that is not nil.
NoDegradedCompute ==
    \A n \in Nodes : \A i \in DOMAIN stepLog[n] :
        stepLog[n][i].phase = "Compute" /\ stepLog[n][i].err # Nil =>
            /\ i = Len(stepLog[n])
            /\ pc[n] \notin {<<"Compute", "Gate">>, <<"Done", "Parked">>}
            /\ Returned(n) => err[n] # Nil

====
